---- MODULE Spec2Model ----
(***************************************************************************)
(* Model of hidi's DependencyContainer (src/src/container.ts): a           *)
(* hierarchical key/value registry.  Every container owns a Map from       *)
(* string keys to injectables and an optional parent container; lookups    *)
(* fall back to the parent chain.                                          *)
(***************************************************************************)
EXTENDS Naturals, FiniteSets, Sequences, TLC

\* ------------------------------------------------------------------ bounds
\* Number of DependencyContainer objects that are ever constructed.
MaxContainers == 3
\* Number of Map entries that exist over all containers together.
MaxEntries == 2
\* Number of containers in the runs that pass every kind of key (SpecKeys).
MaxKeyContainers == 2

\* Number of containers in the runs whose setParent may close a cycle
\* (SpecCyclic).
MaxCycleContainers == 2

\* ------------------------------------------------------------- the universe
ContainerIds == 1 .. MaxContainers

\* `parent` of a container constructed without one (undefined).
NoParent == 0

\* The JavaScript value undefined.
Undefined == "undefined"

\* The JavaScript booleans, as values a call can return.
JsBoolean(b) == IF b THEN "true" ELSE "false"

\* Injectables handed to register(): two distinct object instances, and
\* undefined (Injectable<T = any> admits every value).
Instances == {"v1", "v2"}
Injectables == Instances \cup {Undefined}

\* The lookup keys callers pass (InjectableKey, and what `as any` lets in).
StrKey(s) == [type |-> "string", text |-> s]
ClassKey(n) == [type |-> "function", text |-> n]
NumberKey == [type |-> "number", text |-> "42"]

\* Names that are non-empty strings: the identifiers of the dependency Maps.
Identifiers == {"Logger", "logger"}

InjectableKeys ==
    {StrKey(s) : s \in Identifiers \cup {""}}
        \cup {ClassKey("Logger"), ClassKey("")}
        \cup {NumberKey}

\* The keys handed to register, get, require and has: every valid key and
\* the empty string (they all resolve the key through getInjectableKey,
\* which is called with every key of InjectableKeys).
CallKeys ==
    {StrKey("Logger"), StrKey("logger"), ClassKey("Logger"), StrKey("")}

\* --------------------------------------------------------------- outcomes
\* What a call does: it returns a value or it throws.
Return(v) == [kind |-> "return", value |-> v]
Throw(m) == [kind |-> "throw", message |-> m]

InvalidKeyMessage == <<"Cannot get key for injectable.">>
NotFoundMessage(name) ==
    <<"Required dependency '", name, "' not found in container">>
\* Unbounded recursion exhausts the call stack.
StackExhausted == <<"Maximum call stack size exceeded">>

\* ------------------------------------------------------------------ state
VARIABLES
    containers,     \* the containers constructed so far
    dependencies,   \* dependencies[c]: the Map of container c
    parent,         \* parent[c]: the parent of container c, or NoParent
    last            \* the last call made and its outcome

vars == <<containers, dependencies, parent, last>>

\* ---------------------------------------------------------- Map<string, _>
EmptyMap == [x \in {} |-> Undefined]
MapHas(m, k) == k \in DOMAIN m
MapGet(m, k) == IF k \in DOMAIN m THEN m[k] ELSE Undefined
\* Mutation of MapSet: an existing entry is kept (first write wins).
MapSetKeepsExisting(m, k, v) ==
    [x \in (DOMAIN m) \cup {k} |-> IF x \in DOMAIN m THEN m[x] ELSE v]
MapSet(m, k, v) == [x \in (DOMAIN m) \cup {k} |-> IF x = k THEN v ELSE m[x]]

\* ------------------------------------------------------- getInjectableKey
\* Mutation of getInjectableKey: only an undefined key is refused
\* (key === undefined instead of !key), so '' passes.
getInjectableKeyAcceptsEmpty(injectable) ==
    LET key == IF injectable.type = "string" THEN injectable.text
               ELSE IF injectable.type = "function" THEN injectable.text
               ELSE Undefined
    IN  IF key = Undefined
        THEN Throw(InvalidKeyMessage)
        ELSE Return(key)

\* Mutation of getInjectableKey: a class name is lower-cased
\* (injectable.name.toLowerCase()).
getInjectableKeyLowersClassName(injectable) ==
    LET key == IF injectable.type = "string" THEN injectable.text
               ELSE IF injectable.type = "function"
                    THEN IF injectable.text = "Logger" THEN "logger"
                         ELSE injectable.text
               ELSE Undefined
    IN  IF key = Undefined \/ key = ""
        THEN Throw(InvalidKeyMessage)
        ELSE Return(key)

\* Mutation of getInjectableKey: the key is folded to lower case
\* (key.toLowerCase()), so identifiers are not case-sensitive.
getInjectableKeyIgnoresCase(injectable) ==
    LET raw == IF injectable.type = "string" THEN injectable.text
               ELSE IF injectable.type = "function" THEN injectable.text
               ELSE Undefined
        key == IF raw = "Logger" THEN "logger" ELSE raw
    IN  IF key = Undefined \/ key = ""
        THEN Throw(InvalidKeyMessage)
        ELSE Return(key)

\* typeof string -> the string; typeof function -> its name; a falsy key
\* (undefined or '') throws.
getInjectableKey(injectable) ==
    LET key == IF injectable.type = "string" THEN injectable.text
               ELSE IF injectable.type = "function" THEN injectable.text
               ELSE Undefined
    IN  IF key = Undefined \/ key = ""
        THEN Throw(InvalidKeyMessage)
        ELSE Return(key)

\* -------------------------------------------------------------------- get
\* Mutation of getFrom: the parent chain is asked first and the own entry
\* only when the chain has nothing.
RECURSIVE getFromParentFirst(_, _, _, _, _)
getFromParentFirst(deps, par, c, injectable, visited) ==
    LET key == getInjectableKey(injectable)
        up == IF par[c] # NoParent /\ par[c] \notin visited \cup {c}
              THEN getFromParentFirst(deps, par, par[c], injectable,
                                      visited \cup {c})
              ELSE Return(Undefined)
    IN  IF key.kind = "throw" THEN key
        ELSE IF up.kind = "return" /\ up.value # Undefined THEN up
        ELSE IF MapHas(deps[c], key.value)
             THEN Return(MapGet(deps[c], key.value))
        ELSE Return(Undefined)

\* Mutation of getFrom: the fallback asks the receiver again
\* (this.get(injectable) instead of this.parent.get(injectable)), so a
\* miss on a container with a parent re-enters the same frame for ever.
getFromAsksItself(deps, par, c, injectable, visited) ==
    LET key == getInjectableKey(injectable)
    IN  IF key.kind = "throw" THEN key
        ELSE IF MapHas(deps[c], key.value)
             THEN Return(MapGet(deps[c], key.value))
        ELSE IF par[c] # NoParent THEN Throw(StackExhausted)
        ELSE Return(Undefined)

\* get() on container c.  `visited` holds the receivers of the enclosing
\* get() frames: entering one of them again with the same key repeats the
\* same miss for ever, which ends in the engine's stack exhaustion.
RECURSIVE getFrom(_, _, _, _, _)
getFrom(deps, par, c, injectable, visited) ==
    LET key == getInjectableKey(injectable)
    IN  IF key.kind = "throw" THEN key
        ELSE IF MapHas(deps[c], key.value)
             THEN Return(MapGet(deps[c], key.value))
        ELSE IF par[c] # NoParent
             THEN IF par[c] \in visited \cup {c}
                  THEN Throw(StackExhausted)
                  ELSE getFrom(deps, par, par[c], injectable, visited \cup {c})
        ELSE Return(Undefined)

get(deps, par, c, injectable) == getFrom(deps, par, c, injectable, {})

\* ---------------------------------------------------------------- require
\* Mutation of require: the undefined check is missing.
requireWithoutCheck(deps, par, c, injectable) == get(deps, par, c, injectable)

require(deps, par, c, injectable) ==
    LET value == get(deps, par, c, injectable)
    IN  IF value.kind = "throw" THEN value
        ELSE IF value.value = Undefined
             THEN LET name == getInjectableKey(injectable)
                  IN  IF name.kind = "throw" THEN name
                      ELSE Throw(NotFoundMessage(name.value))
        ELSE Return(value.value)

\* -------------------------------------------------------------------- has
\* (this.dependencies.has(key) || this.parent?.has(key)) ?? false: the
\* parent is asked with the resolved string key.
\* Mutation of hasFrom: the `?? false` is missing, so a miss at a container
\* without parent gives undefined.
RECURSIVE hasFromWithoutDefault(_, _, _, _, _)
hasFromWithoutDefault(deps, par, c, injectable, visited) ==
    LET key == getInjectableKey(injectable)
    IN  IF key.kind = "throw" THEN key
        ELSE IF MapHas(deps[c], key.value) THEN Return(JsBoolean(TRUE))
        ELSE IF par[c] # NoParent
             THEN IF par[c] \in visited \cup {c}
                  THEN Throw(StackExhausted)
                  ELSE hasFromWithoutDefault(deps, par, par[c],
                                             StrKey(key.value),
                                             visited \cup {c})
        ELSE Return(Undefined)

RECURSIVE hasFrom(_, _, _, _, _)
hasFrom(deps, par, c, injectable, visited) ==
    LET key == getInjectableKey(injectable)
    IN  IF key.kind = "throw" THEN key
        ELSE IF MapHas(deps[c], key.value) THEN Return(JsBoolean(TRUE))
        ELSE IF par[c] # NoParent
             THEN IF par[c] \in visited \cup {c}
                  THEN Throw(StackExhausted)
                  ELSE hasFrom(deps, par, par[c], StrKey(key.value),
                               visited \cup {c})
        ELSE Return(JsBoolean(FALSE))

has(deps, par, c, injectable) == hasFrom(deps, par, c, injectable, {})

\* ------------------------------------------------------------ call frames
\* The receivers of the get() frames that c.get(injectable) opens, in the
\* order they are entered, cut off after `depth` frames: a frame returns
\* when the key is invalid, when the receiver owns the key or when it has
\* no parent, and calls this.parent.get(injectable) otherwise.
RECURSIVE getFrames(_, _, _, _, _)
getFrames(deps, par, c, injectable, depth) ==
    IF depth = 0 THEN <<>>
    ELSE LET key == getInjectableKey(injectable)
         IN  <<c>> \o
             (IF key.kind = "throw" THEN <<>>
              ELSE IF MapHas(deps[c], key.value) THEN <<>>
              ELSE IF par[c] # NoParent
                   THEN getFrames(deps, par, par[c], injectable, depth - 1)
              ELSE <<>>)

\* The same for has(): `||` asks this.parent?.has(key) only when the own
\* Map lacks the key.
RECURSIVE hasFrames(_, _, _, _, _)
hasFrames(deps, par, c, injectable, depth) ==
    IF depth = 0 THEN <<>>
    ELSE LET key == getInjectableKey(injectable)
         IN  <<c>> \o
             (IF key.kind = "throw" THEN <<>>
              ELSE IF MapHas(deps[c], key.value) THEN <<>>
              ELSE IF par[c] # NoParent
                   THEN hasFrames(deps, par, par[c], StrKey(key.value),
                                  depth - 1)
              ELSE <<>>)

\* The frames of a lookup: require() makes one get() call.
Frames(op, deps, par, c, injectable, depth) ==
    IF op = "has" THEN hasFrames(deps, par, c, injectable, depth)
    ELSE getFrames(deps, par, c, injectable, depth)

\* ----------------------------------------------------------- parent chain
\* The containers reached from c by following parent links (c excluded
\* unless a cycle leads back to it).
RECURSIVE AncestorsFrom(_, _, _)
AncestorsFrom(par, c, seen) ==
    IF par[c] = NoParent \/ par[c] \in seen THEN {}
    ELSE {par[c]} \cup AncestorsFrom(par, par[c], seen \cup {par[c]})

Ancestors(par, c) == AncestorsFrom(par, c, {})

\* The parents a caller that keeps the hierarchy free of cycles may hand to
\* c.setParent().
AcyclicParents(c) ==
    {p \in containers : p # c /\ c \notin Ancestors(parent, p)}

\* ------------------------------------------------------------- the calls
NoCall == [op |-> "none"]

\* The number of Map entries over all containers.
EntryCount ==
    Cardinality({e \in containers \X Identifiers :
                    e[2] \in DOMAIN dependencies[e[1]]})

Init ==
    /\ containers = {1}
    /\ dependencies = [c \in {1} |-> EmptyMap]
    /\ parent = [c \in {1} |-> NoParent]
    /\ last = NoCall

\* new DependencyContainer(p): an empty Map, parent p (possibly undefined).
Construct(n, p) ==
    /\ containers' = containers \cup {n}
    /\ dependencies' = [c \in containers \cup {n} |->
                            IF c = n THEN EmptyMap ELSE dependencies[c]]
    /\ parent' = [c \in containers \cup {n} |->
                            IF c = n THEN p ELSE parent[c]]

New ==
    /\ Cardinality(containers) < MaxContainers
    /\ LET n == Cardinality(containers) + 1
       IN  /\ Construct(n, NoParent)
           /\ last' = [op |-> "new", ret |-> Return(n)]

Extend(c) ==
    /\ Cardinality(containers) < MaxContainers
    /\ LET n == Cardinality(containers) + 1
       IN  /\ Construct(n, c)
           /\ last' = [op |-> "extend", self |-> c, ret |-> Return(n)]

\* Mutation of SetParent: a parent that is already set is kept
\* (this.parent ??= parent).
SetParentOnlyOnce(c, p) ==
    /\ parent' = [parent EXCEPT ![c] = IF parent[c] = NoParent THEN p
                                       ELSE parent[c]]
    /\ UNCHANGED <<containers, dependencies>>
    /\ last' = [op |-> "setParent", self |-> c, arg |-> p, old |-> parent[c],
                ret |-> Return(Undefined)]

SetParent(c, p) ==
    /\ parent' = [parent EXCEPT ![c] = p]
    /\ UNCHANGED <<containers, dependencies>>
    /\ last' = [op |-> "setParent", self |-> c, arg |-> p, old |-> parent[c],
                ret |-> Return(Undefined)]

\* Mutation of Register: the entry is written to the parent's Map as well.
RegisterAlsoInParent(c, key, injectable) ==
    LET k == getInjectableKey(key)
    IN  /\ k.kind = "return" /\ ~MapHas(dependencies[c], k.value)
                => EntryCount < MaxEntries
        /\ dependencies' =
                IF k.kind = "throw" THEN dependencies
                ELSE [r \in containers |->
                        IF r = c \/ r = parent[c]
                        THEN MapSet(dependencies[r], k.value, injectable)
                        ELSE dependencies[r]]
        /\ UNCHANGED <<containers, parent>>
        /\ last' = [op |-> "register", self |-> c, arg |-> key,
                    value |-> injectable,
                    old |-> IF k.kind = "throw" THEN Undefined
                            ELSE MapGet(dependencies[c], k.value),
                    ret |-> IF k.kind = "throw" THEN k ELSE Return(Undefined)]

\* this.dependencies.set(this.getInjectableKey(key), injectable): the key is
\* resolved first, so an invalid key throws before anything is stored.
\* `old` remembers what the Map held for the key before the call.
Register(c, key, injectable) ==
    LET k == getInjectableKey(key)
    IN  /\ k.kind = "return" /\ ~MapHas(dependencies[c], k.value)
                => EntryCount < MaxEntries
        /\ dependencies' =
                IF k.kind = "throw" THEN dependencies
                ELSE [dependencies EXCEPT
                        ![c] = MapSet(dependencies[c], k.value, injectable)]
        /\ UNCHANGED <<containers, parent>>
        /\ last' = [op |-> "register", self |-> c, arg |-> key,
                    value |-> injectable,
                    old |-> IF k.kind = "throw" THEN Undefined
                            ELSE MapGet(dependencies[c], k.value),
                    ret |-> IF k.kind = "throw" THEN k ELSE Return(Undefined)]

GetInjectableKey(key) ==
    /\ UNCHANGED <<containers, dependencies, parent>>
    /\ last' = [op |-> "getInjectableKey", arg |-> key,
                ret |-> getInjectableKey(key)]

\* Mutation of Get: a value found on the parent chain is cached in the
\* receiver's own Map.
GetCachesFound(c, key) ==
    LET k == getInjectableKey(key)
        ret == get(dependencies, parent, c, key)
    IN  /\ dependencies' =
                IF /\ ret.kind = "return" /\ ret.value # Undefined
                   /\ ~MapHas(dependencies[c], k.value)
                THEN [dependencies EXCEPT
                        ![c] = MapSet(dependencies[c], k.value, ret.value)]
                ELSE dependencies
        /\ UNCHANGED <<containers, parent>>
        /\ last' = [op |-> "get", self |-> c, arg |-> key, ret |-> ret]

Get(c, key) ==
    /\ UNCHANGED <<containers, dependencies, parent>>
    /\ last' = [op |-> "get", self |-> c, arg |-> key,
                ret |-> get(dependencies, parent, c, key)]

Require(c, key) ==
    /\ UNCHANGED <<containers, dependencies, parent>>
    /\ last' = [op |-> "require", self |-> c, arg |-> key,
                ret |-> require(dependencies, parent, c, key)]

Has(c, key) ==
    /\ UNCHANGED <<containers, dependencies, parent>>
    /\ last' = [op |-> "has", self |-> c, arg |-> key,
                ret |-> has(dependencies, parent, c, key)]

Next ==
    \/ New
    \/ \E c \in containers : Extend(c)
    \/ \E c \in containers : \E p \in AcyclicParents(c) : SetParent(c, p)
    \/ \E c \in containers, key \in CallKeys, v \in Injectables :
            Register(c, key, v)
    \/ \E key \in InjectableKeys : GetInjectableKey(key)
    \/ \E c \in containers, key \in CallKeys : Get(c, key)
    \/ \E c \in containers, key \in CallKeys : Require(c, key)
    \/ \E c \in containers, key \in CallKeys : Has(c, key)

Spec == Init /\ [][Next]_vars

\* The same calls on a hierarchy of at most MaxKeyContainers containers,
\* with register, get, require and has handed every key of InjectableKeys
\* (a number and an unnamed class included).
NextKeys ==
    \/ Cardinality(containers) < MaxKeyContainers /\ New
    \/ \E c \in containers :
            Cardinality(containers) < MaxKeyContainers /\ Extend(c)
    \/ \E c \in containers : \E p \in AcyclicParents(c) : SetParent(c, p)
    \/ \E c \in containers, key \in InjectableKeys, v \in Injectables :
            Register(c, key, v)
    \/ \E key \in InjectableKeys : GetInjectableKey(key)
    \/ \E c \in containers, key \in InjectableKeys : Get(c, key)
    \/ \E c \in containers, key \in InjectableKeys : Require(c, key)
    \/ \E c \in containers, key \in InjectableKeys : Has(c, key)

SpecKeys == Init /\ [][NextKeys]_vars

\* The calls on a hierarchy of at most MaxCycleContainers containers whose
\* caller hands setParent any container, the receiver itself and its
\* descendants included: setParent validates nothing.
NextCyclic ==
    \/ Cardinality(containers) < MaxCycleContainers /\ New
    \/ \E c \in containers :
            Cardinality(containers) < MaxCycleContainers /\ Extend(c)
    \/ \E c \in containers, p \in containers : SetParent(c, p)
    \/ \E c \in containers, key \in CallKeys, v \in Injectables :
            Register(c, key, v)
    \/ \E key \in InjectableKeys : GetInjectableKey(key)
    \/ \E c \in containers, key \in CallKeys : Get(c, key)
    \/ \E c \in containers, key \in CallKeys : Require(c, key)
    \/ \E c \in containers, key \in CallKeys : Has(c, key)

SpecCyclic == Init /\ [][NextCyclic]_vars

\* ------------------------------------------------------------ well-formed
TypeOK ==
    /\ containers \subseteq ContainerIds
    /\ DOMAIN dependencies = containers
    /\ DOMAIN parent = containers
    /\ \A c \in containers :
        /\ DOMAIN dependencies[c] \subseteq Identifiers
        /\ \A k \in DOMAIN dependencies[c] : dependencies[c][k] \in Injectables
        /\ parent[c] \in containers \cup {NoParent}

\* ================================================================ claims
\* What the specification calls a valid key: a non-empty string, or a type
\* reference with a declared name; its identifier is that string or name.
ValidKey(k) == k.type \in {"string", "function"} /\ k.text # ""
InvalidKey(k) == ~ValidKey(k)
IdentifierOf(k) == k.text
ValidKeys == {k \in InjectableKeys : ValidKey(k)}

\* The registries met when walking from c through parent links, c first.
RECURSIVE ChainFrom(_, _, _)
ChainFrom(par, c, seen) ==
    IF c = NoParent \/ c \in seen THEN <<>>
    ELSE <<c>> \o ChainFrom(par, par[c], seen \cup {c})

ChainOf(par, c) == ChainFrom(par, c, {})

\* The walk from c ends at a registry without parent.
AcyclicFrom(par, c) ==
    LET ch == ChainOf(par, c) IN par[ch[Len(ch)]] = NoParent

\* The positions on the chain of c whose own table holds the identifier.
OwnerPositions(deps, par, c, id) ==
    {i \in 1 .. Len(ChainOf(par, c)) : id \in DOMAIN deps[ChainOf(par, c)[i]]}

Least(S) == CHOOSE x \in S : \A y \in S : x <= y

NearestOwner(deps, par, c, id) ==
    ChainOf(par, c)[Least(OwnerPositions(deps, par, c, id))]

Lookups == {"get", "require", "has"}

\* C1: last write wins on a registry's own table: right after
\* R.register(K, V) with a valid key, R.get(K) returns V and R.has(K)
\* returns true, whatever R held before and whatever its parent chain holds.
C1_LastWriteWins ==
    (last.op = "register" /\ ValidKey(last.arg)) =>
        /\ last.ret = Return(Undefined)
        /\ get(dependencies, parent, last.self, last.arg) = Return(last.value)
        /\ has(dependencies, parent, last.self, last.arg)
                = Return(JsBoolean(TRUE))

\* A register that overwrote another instance, on a child whose parent
\* holds the key too.
C1_Witness ==
    /\ last.op = "register" /\ ValidKey(last.arg)
    /\ last.old \in Instances /\ last.value \in Instances
    /\ last.old # last.value
    /\ parent[last.self] # NoParent
    /\ IdentifierOf(last.arg) \in DOMAIN dependencies[parent[last.self]]

\* C2: nearest-owner resolution: on an acyclic parent chain, R.get(K) returns
\* the value stored in the first registry on the walk from R whose own table
\* holds K's identifier, and undefined when no registry on the walk holds it.
C2_NearestOwner ==
    (last.op = "get" /\ ValidKey(last.arg)
            /\ AcyclicFrom(parent, last.self)) =>
        LET id == IdentifierOf(last.arg)
        IN  IF OwnerPositions(dependencies, parent, last.self, id) = {}
            THEN last.ret = Return(Undefined)
            ELSE last.ret = Return(dependencies[
                    NearestOwner(dependencies, parent, last.self, id)][id])

\* A get through a chain of three registries in which the parent and the
\* grandparent hold different values for the key: the parent's is returned.
C2_Witness ==
    /\ last.op = "get" /\ ValidKey(last.arg)
    /\ LET id == IdentifierOf(last.arg)
           ch == ChainOf(parent, last.self)
       IN  /\ Len(ch) = 3
           /\ OwnerPositions(dependencies, parent, last.self, id) = {2, 3}
           /\ dependencies[ch[2]][id] # dependencies[ch[3]][id]
           /\ dependencies[ch[2]][id] \in Instances
           /\ last.ret = Return(dependencies[ch[2]][id])
\* What a step that is a register call does (the step condition of C3).
C3_RegisterStep ==
    last'.op = "register" =>
        /\ containers' = containers
        /\ parent' = parent
        /\ \A r \in containers \ {last'.self} :
                dependencies'[r] = dependencies[r]
        /\ \A a \in Ancestors(parent, last'.self) \ {last'.self} :
                /\ get(dependencies', parent', a, last'.arg)
                        = get(dependencies, parent, a, last'.arg)
                /\ has(dependencies', parent', a, last'.arg)
                        = has(dependencies, parent, a, last'.arg)
        /\ ValidKey(last'.arg) =>
                get(dependencies', parent', last'.self, last'.arg)
                        = Return(last'.value)

\* C3: no leakage upward: a register on registry C changes only C's own
\* table; every other registry's table and every parent link stay as they
\* were, so each ancestor of C answers get and has as before, while C
\* itself answers with the new value.
C3_NoLeakageUpward == [][C3_RegisterStep]_vars

\* A child registered V2 under a key for which its parent holds V1.
C3_Witness ==
    /\ last.op = "register" /\ ValidKey(last.arg)
    /\ parent[last.self] # NoParent
    /\ LET id == IdentifierOf(last.arg)
           p == parent[last.self]
       IN  /\ id \in DOMAIN dependencies[p]
           /\ dependencies[p][id] \in Instances
           /\ last.value \in Instances
           /\ dependencies[p][id] # last.value
           /\ last.old = Undefined
           /\ get(dependencies, parent, p, last.arg)
                    = Return(dependencies[p][id])

\* C4: on an acyclic chain R.has(K) returns the boolean true exactly when
\* K's identifier is in the own table of R or of a registry on R's parent
\* chain, and the boolean false otherwise.
C4_HasIffOnChain ==
    (last.op = "has" /\ ValidKey(last.arg)
            /\ AcyclicFrom(parent, last.self)) =>
        last.ret = Return(JsBoolean(
            \E r \in {last.self} \cup Ancestors(parent, last.self) :
                IdentifierOf(last.arg) \in DOMAIN dependencies[r]))

\* A has that misses on a child and on its root, while both hold the other
\* identifier, and answers false.
C4_Witness ==
    /\ last.op = "has" /\ last.arg = ClassKey("Logger")
    /\ parent[last.self] # NoParent
    /\ \A r \in {last.self} \cup Ancestors(parent, last.self) :
            DOMAIN dependencies[r] = {"logger"}
    /\ last.ret = Return(JsBoolean(FALSE))

\* C5: miss semantics: for a valid key held by no registry on R's acyclic
\* chain, get returns undefined without throwing and require throws the
\* error whose message is "Required dependency '<identifier>' not found in
\* container", <identifier> being the string key or the class's name.
C5_MissSemantics ==
    (last.op \in {"get", "require"} /\ ValidKey(last.arg)
            /\ AcyclicFrom(parent, last.self)
            /\ \A r \in {last.self} \cup Ancestors(parent, last.self) :
                    IdentifierOf(last.arg) \notin DOMAIN dependencies[r]) =>
        IF last.op = "get"
        THEN last.ret = Return(Undefined)
        ELSE last.ret = Throw(<<"Required dependency '",
                                IdentifierOf(last.arg),
                                "' not found in container">>)

\* A require by class type that misses on a chain of two registries.
C5_Witness ==
    /\ last.op = "require" /\ last.arg = ClassKey("Logger")
    /\ parent[last.self] # NoParent
    /\ \A r \in {last.self} \cup Ancestors(parent, last.self) :
            "Logger" \notin DOMAIN dependencies[r]
    /\ \E r \in Ancestors(parent, last.self) :
            "logger" \in DOMAIN dependencies[r]
    /\ last.ret.kind = "throw"

\* C6: require throws only when no registry on the chain holds K's
\* identifier: whenever R.has(K) is true, whatever value was registered,
\* R.require(K) returns the value R.get(K) finds and does not throw.
C6_RequireThrowsOnlyOnMiss ==
    (last.op = "require" /\ ValidKey(last.arg)
            /\ has(dependencies, parent, last.self, last.arg)
                    = Return(JsBoolean(TRUE))) =>
        /\ last.ret.kind = "return"
        /\ last.ret = get(dependencies, parent, last.self, last.arg)
\* What a step that is a setParent call does (the step condition of C7).
C7_SetParentStep ==
    last'.op = "setParent" =>
        LET c == last'.self
            p == last'.arg
        IN  /\ containers' = containers
            /\ dependencies' = dependencies
            /\ parent'[c] = p
            /\ \A r \in containers \ {c} : parent'[r] = parent[r]
            /\ \A key \in ValidKeys :
                IF IdentifierOf(key) \in DOMAIN dependencies[c]
                THEN get(dependencies', parent', c, key)
                        = Return(dependencies[c][IdentifierOf(key)])
                ELSE /\ get(dependencies', parent', c, key)
                            = get(dependencies', parent', p, key)
                     /\ has(dependencies', parent', c, key)
                            = has(dependencies', parent', p, key)

\* C7: re-parenting: C.setParent(P) replaces C's parent reference by P and
\* changes nothing else (no table, no other registry's parent); from then
\* on a key C owns still resolves to C's own value, and a key C does not own
\* resolves exactly as it does on P.
C7_Reparenting == [][C7_SetParentStep]_vars

\* C was moved from P1, which holds the key, to P2, whose chain does not:
\* C's get misses.
C7_Witness ==
    /\ last.op = "setParent"
    /\ last.old # NoParent /\ last.old # last.arg
    /\ parent[last.self] = last.arg
    /\ last.old \notin {last.arg} \cup Ancestors(parent, last.arg)
    /\ "Logger" \in DOMAIN dependencies[last.old]
    /\ dependencies[last.old]["Logger"] \in Instances
    /\ DOMAIN dependencies[last.self] = {"logger"}
    /\ get(dependencies, parent, last.self, StrKey("Logger"))
            = Return(Undefined)
    /\ get(dependencies, parent, last.self, StrKey("logger"))
            = Return(dependencies[last.self]["logger"])
\* What an extend step does, and what a register step does to the
\* children of its receiver (the step condition of C8).
C8_ExtendStep ==
    /\ last'.op = "extend" =>
        LET n == last'.ret.value
        IN  /\ n \notin containers
            /\ containers' = containers \cup {n}
            /\ dependencies'[n] = EmptyMap
            /\ parent'[n] = last'.self
            /\ \A r \in containers :
                /\ dependencies'[r] = dependencies[r]
                /\ parent'[r] = parent[r]
    /\ (last'.op = "register" /\ ValidKey(last'.arg)) =>
        \A c \in containers \ {last'.self} :
            (/\ parent[c] = last'.self
             /\ IdentifierOf(last'.arg) \notin DOMAIN dependencies[c]) =>
                /\ get(dependencies', parent', c, last'.arg)
                        = Return(last'.value)
                /\ has(dependencies', parent', c, last'.arg)
                        = Return(JsBoolean(TRUE))
                /\ require(dependencies', parent', c, last'.arg)
                        = Return(last'.value)

\* C8: extend links and does not copy: P.extend() returns a new registry
\* with an empty own table and parent P and leaves every existing registry
\* as it was; the link is live, so what is registered in P afterwards is
\* what get, has and require on a child of P return for a key the child
\* does not own.
C8_ExtendLinks == [][C8_ExtendStep]_vars
\* What a step that is a call with an invalid key does (the step
\* condition of C9).
C9_InvalidKeyStep ==
    (/\ last'.op \in {"getInjectableKey", "register", "get", "require", "has"}
     /\ InvalidKey(last'.arg)) =>
        /\ last'.ret = Throw(<<"Cannot get key for injectable.">>)
        /\ UNCHANGED <<containers, dependencies, parent>>

\* C9: invalid keys: an empty string, a value that is neither a string nor
\* a function, and a function without a name make getInjectableKey throw
\* the error "Cannot get key for injectable."; register, get, require and
\* has called with such a key throw that same error, and the call changes
\* no registry's entries and no parent link.
C9_InvalidKeys == [][C9_InvalidKeyStep]_vars

\* A register under an unnamed class was refused by a registry that holds
\* an entry and has a parent.
C9_Witness ==
    /\ last.op = "register" /\ last.arg = ClassKey("")
    /\ last.value \in Instances
    /\ last.ret.kind = "throw"
    /\ parent[last.self] # NoParent
    /\ DOMAIN dependencies[last.self] # {}

\* Registry R has just run register(Logger, v2) right after
\* register('Logger', v1), v1 and v2 two distinct instances.
C10_MixedStep(v1, v2) ==
    /\ last.op = "register" /\ last.arg = StrKey("Logger")
    /\ last.value = v1
    /\ last'.op = "register" /\ last'.arg = ClassKey("Logger")
    /\ last'.value = v2
    /\ last'.self = last.self

C11_DerivationStep ==
    /\ (last'.op = "getInjectableKey" /\ ValidKey(last'.arg)) =>
            last'.ret = Return(last'.arg.text)
    /\ (last'.op = "register" /\ last'.arg.type = "function"
            /\ ValidKey(last'.arg)) =>
        LET T == last'.arg
            N == T.text
            c == last'.self
        IN  /\ DOMAIN dependencies'[c] = DOMAIN dependencies[c] \cup {N}
            /\ dependencies'[c][N] = last'.value
            /\ \A id \in DOMAIN dependencies[c] \ {N} :
                    dependencies'[c][id] = dependencies[c][id]
            /\ get(dependencies', parent', c, T) = Return(last'.value)
            /\ has(dependencies', parent', c, T) = Return(JsBoolean(TRUE))
            /\ \A r \in containers :
                    /\ get(dependencies', parent', r, T)
                            = get(dependencies', parent', r, StrKey(N))
                    /\ has(dependencies', parent', r, T)
                            = has(dependencies', parent', r, StrKey(N))
                    /\ require(dependencies', parent', r, T)
                            = require(dependencies', parent', r, StrKey(N))

C12_LookupStep ==
    last'.op \in Lookups \cup {"getInjectableKey"} =>
        /\ containers' = containers
        /\ \A r \in containers :
                /\ dependencies'[r] = dependencies[r]
                /\ parent'[r] = parent[r]

\* C12: lookups are pure reads: a get, has or require call, whether it
\* returns a value, returns undefined or throws, and a getInjectableKey
\* call leave the own table and the parent reference of every registry as
\* they were, the receiver and the registries on its parent chain included.
C12_LookupsArePureReads == [][C12_LookupStep]_vars

\* A get by class type on a child that does not own the key returned the
\* instance held by its parent; the child's own table still lacks the key.
C12_Witness ==
    /\ last.op = "get" /\ last.arg = ClassKey("Logger")
    /\ parent[last.self] # NoParent
    /\ DOMAIN dependencies[last.self] = {"logger"}
    /\ "Logger" \in DOMAIN dependencies[parent[last.self]]
    /\ last.ret.kind = "return" /\ last.ret.value \in Instances
    /\ last.ret.value = dependencies[parent[last.self]]["Logger"]

\* The number of frames up to which a recursion is followed to see that it
\* does not end.
CycleFrames == 2 * MaxContainers

\* What a setParent step does whatever registry it is handed, and what a
\* lookup step does on a receiver whose parent chain is cyclic (the step
\* condition of C13).
C13_CycleStep ==
    /\ last'.op = "setParent" =>
            /\ last'.ret = Return(Undefined)
            /\ parent'[last'.self] = last'.arg
            /\ \A r \in containers \ {last'.self} : parent'[r] = parent[r]
            /\ dependencies' = dependencies
    /\ (/\ last'.op \in Lookups /\ ValidKey(last'.arg)
         /\ ~AcyclicFrom(parent', last'.self)) =>
            LET R == last'.self
                id == IdentifierOf(last'.arg)
            IN  IF OwnerPositions(dependencies', parent', R, id) = {}
                THEN /\ last'.ret = Throw(StackExhausted)
                     /\ \A d \in 1 .. CycleFrames :
                            Len(Frames(last'.op, dependencies', parent', R,
                                       last'.arg, d)) = d
                ELSE LET owner == NearestOwner(dependencies', parent', R, id)
                     IN  last'.ret =
                            IF last'.op = "has" THEN Return(JsBoolean(TRUE))
                            ELSE Return(dependencies'[owner][id])

\* C13: cycle hazard: setParent validates nothing and accepts any registry,
\* the receiver itself and its descendants included; once the parent chain
\* from R is cyclic, a get, has or require on R for an identifier that no
\* registry on the chain holds never returns (the recursion opens frame
\* after frame and ends only by exhausting the stack), whereas for an
\* identifier that a registry on the chain holds, get and require return
\* the value of the first such registry and has returns true.
C13_CycleHazard == [][C13_CycleStep]_vars

\* More frames than a chain without cycle can open.
FrameLimit == MaxContainers + 1

\* C14: termination on acyclic hierarchies: when no call has closed a
\* cycle, every get, has and require call completes: its recursion ends by
\* itself, it enters the registries of the receiver's chain in chain order,
\* each at most once, and its last frame is on the first registry that
\* owns the identifier or, when none does, on the root.
C14_TerminatesOnAcyclic ==
    last.op \in Lookups =>
        LET fr == Frames(last.op, dependencies, parent, last.self, last.arg,
                         FrameLimit)
            ch == ChainOf(parent, last.self)
            id == IdentifierOf(last.arg)
        IN  /\ last.ret # Throw(StackExhausted)
            /\ Len(fr) >= 1 /\ Len(fr) < FrameLimit /\ Len(fr) <= Len(ch)
            /\ \A i \in 1 .. Len(fr) : fr[i] = ch[i]
            /\ \A i, j \in 1 .. Len(fr) : i # j => fr[i] # fr[j]
            /\ ValidKey(last.arg) =>
                    /\ \A i \in 1 .. (Len(fr) - 1) :
                            id \notin DOMAIN dependencies[fr[i]]
                    /\ \/ id \in DOMAIN dependencies[fr[Len(fr)]]
                       \/ parent[fr[Len(fr)]] = NoParent
                    /\ id \in DOMAIN dependencies[fr[Len(fr)]] =>
                            last.ret # Return(JsBoolean(FALSE))

\* A has that missed on a chain of three registries: one frame on each,
\* the last one on the root, and the answer false.
C14_Witness ==
    /\ last.op = "has" /\ last.arg = StrKey("logger")
    /\ Len(ChainOf(parent, last.self)) = 3
    /\ hasFrames(dependencies, parent, last.self, last.arg, FrameLimit)
            = ChainOf(parent, last.self)
    /\ \E r \in containers : "Logger" \in DOMAIN dependencies[r]
    /\ last.ret = Return(JsBoolean(FALSE))
====
